---------------------------- MODULE Spec2Model ----------------------------
(***************************************************************************)
(* State-machine model of the training orchestration and the command-line  *)
(* glue of t-cell-relation-extraction:                                     *)
(*   src/src/tcre/modeling/training.py   supervise, load_checkpoint        *)
(*   src/src/tcre/exec/v1/cli.py         get_modeling_config, _datasets,   *)
(*                                       _train, _predict, train           *)
(*                                                                         *)
(* Library behaviour the code relies on is modelled by what the library    *)
(* does: ignite's Engine.run loop, EarlyStopping (a score that is not      *)
(* higher than the best one counts as no improvement, min_delta = 0) and   *)
(* ModelCheckpoint (one file <prefix>_<name>_<iteration>_<score>.pth per   *)
(* saved object, n_saved lowest-priority-first eviction), torch's          *)
(* ReduceLROnPlateau, torchtext's Vocab, pathlib and shutil.               *)
(*                                                                         *)
(* Numbers: a validation F1 is an integer in units of 1/200; a learning    *)
(* rate is an integer in units of the scheduler's eps (1e-8).              *)
(***************************************************************************)
EXTENDS Integers, Sequences, FiniteSets, TLC

VARIABLES
    \* ---- supervise (training.py) ----
    args,              \* arguments of supervise: max_epochs, es_patience, lr_patience, model_dir, lr
    pc,                \* position inside supervise
    trainer,           \* the trainer Engine: state.epoch, should_terminate
    es,                \* the EarlyStopping handler: best_score, counter
    mc,                \* the ModelCheckpoint handler: _iteration, _saved
    files,             \* the files of the checkpoint directory
    scheduler,         \* ReduceLROnPlateau: best, num_bad_epochs, last_epoch
    lr,                \* optimizer.param_groups[0]['lr']
    val_f1,            \* val_evaluator.state.metrics['f1']
    history,           \* the history list
    test_predictions,  \* the test_predictions list
    retval,            \* what supervise returned (or the exception it raised)
    \* ---- load_checkpoint, _predict ----
    output_dir,        \* config['output_dir'] of the run that is read back
    lpc,               \* position inside _predict
    checkpoint,        \* what load_checkpoint returned
    load_error,        \* the exception load_checkpoint or _predict raised
    \* ---- get_modeling_config (cli.py) ----
    MARKER_LISTS,      \* the module-level dict of marker lists
    config,            \* what the last get_modeling_config call returned
    config_calls,      \* number of calls made in this process
    \* ---- the train command's output directory (cli.py) ----
    fs,                \* the directories that exist (resolved paths from the root)
    cwd,               \* the process's working directory
    train_output_dir,  \* ctx.obj['output_dir']
    tpc,               \* position inside the train command
    removed,           \* what shutil.rmtree deleted
    train_error,       \* the exception the train command raised
    \* ---- _datasets, _train (cli.py) ----
    splits,            \* split name -> list of candidate ids
    df,                \* the feature rows of the resolved candidates (id, text, label)
    wrd_embedding_type,\* config['wrd_embedding_type']
    datasets,          \* what _datasets returned: split name -> rows
    vocab,             \* fields['text'].vocab
    model_args,        \* config['model_args'] once the model is built
    trpc,              \* position inside _train (or _datasets called alone)
    tr_error,          \* the exception raised
    prev_run           \* the train split, its texts and the vocabulary of the run before

svars == <<args, pc, trainer, es, mc, files, scheduler, lr, val_f1, history,
           test_predictions, retval>>

\* supervise's variables without the checkpoint directory
srest == <<args, pc, trainer, es, mc, scheduler, lr, val_f1, history,
           test_predictions, retval>>

lvars == <<output_dir, lpc, checkpoint, load_error>>

gvars == <<MARKER_LISTS, config, config_calls>>

dvars == <<fs, cwd, train_output_dir, tpc, removed, train_error>>

tvars == <<splits, df, wrd_embedding_type, datasets, vocab, model_args, trpc,
           tr_error, prev_run>>

vars == <<svars, lvars, gvars, dvars, tvars>>

\* What the steps of one operation leave alone: the other operations' state.
notSupervise == <<lvars, gvars, dvars, tvars>>
notLoad == <<srest, gvars, dvars, tvars>>
notConfig == <<svars, lvars, dvars, tvars>>
notClear == <<svars, lvars, gvars, tvars>>
notTrain == <<svars, lvars, gvars, dvars>>

---------------------------------------------------------------------------
(* Bounds of the model *)
MaxEpochs == 4
MaxEsPatience == 2
MaxLrPatience == 1
MaxReductions == 2
MaxIteration == 2
MaxCalls == 3
MaxDepth == 3
MaxId == 2
MaxSplitLen == 2
MaxRows == 12

(* Program constants *)
N_SAVED == 1              \* ModelCheckpoint(n_saved=1)
LR_FACTOR_DIV == 4        \* ReduceLROnPlateau(factor=0.25): lr * 0.25 = lr / 4
THRESHOLD_PCT == 1        \* ReduceLROnPlateau(threshold=0.01), relative

None == <<>>
Some(x) == <<x>>

\* Validation F1 values an epoch can produce, in units of 1/200:
\* 0, 0.495, 0.5 and 1.0 (0.495 is within 1% of 0.5).
F1Values == {0, 99, 100, 200}

Max(S) == CHOOSE x \in S : \A y \in S : y <= x

COMPONENTS == {"model", "optimizer", "scheduler"}

---------------------------------------------------------------------------
(* supervise: construction *)

InitialLr == LR_FACTOR_DIV ^ MaxReductions

SuperviseArgs ==
    [max_epochs : 0..MaxEpochs,
     es_patience : 0..MaxEsPatience,
     lr_patience : 0..MaxLrPatience,
     model_dir : {None, Some("out")},
     lr : {InitialLr}]

\* A file ModelCheckpoint wrote: the component, the handler's call counter,
\* the score in the name and the state that was saved.
CheckpointFile(name, iteration, score, state) ==
    [name |-> name, iteration |-> iteration, score |-> score, state |-> state]

\* Files left by an earlier run in <model_dir>/checkpoints.
StaleFiles == {CheckpointFile(c, 1, 0, None) : c \in COMPONENTS}

SuperviseInit ==
    /\ args \in SuperviseArgs
    /\ pc = "construct"
    /\ trainer = [epoch |-> 0, should_terminate |-> FALSE]
    /\ es = [best_score |-> None, counter |-> 0]
    /\ mc = [iteration |-> 0, saved |-> <<>>]
    /\ files \in (IF args.model_dir = None THEN {{}} ELSE {{}, StaleFiles})
    /\ scheduler = [best |-> None, num_bad_epochs |-> 0, last_epoch |-> 0]
    /\ lr = args.lr
    /\ val_f1 = None
    /\ history = <<>>
    /\ test_predictions = <<>>
    /\ retval = None

\* EarlyStopping.__init__ raises for a patience below 1; ModelCheckpoint.__init__
\* with require_empty=True raises when files with the prefix are present.
Construct ==
    /\ pc = "construct"
    /\ IF args.es_patience < 1
         THEN /\ pc' = "raised"
              /\ retval' = Some("ValueError")
         ELSE IF args.model_dir # None /\ files # {}
         THEN /\ pc' = "raised"
              /\ retval' = Some("ValueError")
         ELSE /\ pc' = "loop"
              /\ UNCHANGED retval
    /\ UNCHANGED <<args, trainer, es, mc, files, scheduler, lr, val_f1, history,
                   test_predictions>>
    /\ UNCHANGED notSupervise

---------------------------------------------------------------------------
(* supervise: the trainer's epoch loop (ignite Engine.run) *)

\* while state.epoch < max_epochs and not should_terminate: one pass over the
\* training data, then EPOCH_COMPLETED; afterwards COMPLETED.
TrainEpoch ==
    /\ pc = "loop"
    /\ IF trainer.epoch < args.max_epochs /\ ~trainer.should_terminate
         THEN /\ trainer' = [trainer EXCEPT !.epoch = @ + 1]
              /\ pc' = "log_training"
         ELSE /\ pc' = "completed"
              /\ UNCHANGED trainer
    /\ UNCHANGED <<args, es, mc, files, scheduler, lr, val_f1, history,
                   test_predictions, retval>>
    /\ UNCHANGED notSupervise

\* The metrics an evaluator leaves in engine.state.metrics. Only the validation
\* F1 steers the run; the other evaluators' values are one representative.
EvaluatorF1(dataset_type) ==
    IF dataset_type = "validation" THEN F1Values ELSE {0}

Metrics(f1, predictions) ==
    IF predictions
      THEN [k \in {"f1", "predictions"} |-> IF k = "f1" THEN f1 ELSE 0]
      ELSE [k \in {"f1"} |-> f1]

Title(dataset_type) ==
    CASE dataset_type = "training" -> "Training"
      [] dataset_type = "validation" -> "Validation"
      [] dataset_type = "test" -> "Test"

\* log_results: metrics plus lr, type and epoch; the 'predictions' key is
\* filtered out of what goes into the history.
Record(metrics, dataset_type, epoch, cur_lr) ==
    [k \in DOMAIN metrics \cup {"lr", "type", "epoch"} |->
        CASE k = "lr" -> cur_lr
          [] k = "type" -> Title(dataset_type)
          [] k = "epoch" -> epoch
          [] OTHER -> metrics[k]]

HistoryEntryUnfiltered(record) == record
HistoryEntry(record) ==
    [k \in DOMAIN record \ {"predictions"} |-> record[k]]

\* log_training_results, first half: log_results(train_evaluator, ...)
LogTraining ==
    /\ pc = "log_training"
    /\ \E f \in EvaluatorF1("training") :
         history' = Append(history,
                       HistoryEntry(Record(Metrics(f, FALSE), "training", trainer.epoch, lr)))
    /\ pc' = "val_run"
    /\ UNCHANGED <<args, trainer, es, mc, files, scheduler, lr, val_f1,
                   test_predictions, retval>>
    /\ UNCHANGED notSupervise

\* log_results(val_evaluator, ...): engine.run(iterator) computes the metrics
\* and fires the evaluator's EPOCH_COMPLETED handlers in registration order.
ValRun ==
    /\ pc = "val_run"
    /\ \E f \in EvaluatorF1("validation") : val_f1' = Some(f)
    /\ pc' = "early_stopping"
    /\ UNCHANGED <<args, trainer, es, mc, files, scheduler, lr, history,
                   test_predictions, retval>>
    /\ UNCHANGED notSupervise

\* EarlyStopping: no improvement when the score is not above the best score.
EsNoImprovementTieResets(score, best_score) == score < best_score
EsNoImprovement(score, best_score) == score <= best_score

EarlyStoppingCall ==
    /\ pc = "early_stopping"
    /\ LET score == val_f1[1] IN
         IF es.best_score = None
           THEN /\ es' = [es EXCEPT !.best_score = Some(score)]
                /\ UNCHANGED trainer
           ELSE IF EsNoImprovement(score, es.best_score[1])
           THEN /\ es' = [es EXCEPT !.counter = @ + 1]
                /\ trainer' = [trainer EXCEPT !.should_terminate =
                                  @ \/ (es.counter + 1 >= args.es_patience)]
           ELSE /\ es' = [best_score |-> Some(score), counter |-> 0]
                /\ UNCHANGED trainer
    /\ pc' = IF args.model_dir # None THEN "checkpoint" ELSE "log_validation"
    /\ UNCHANGED <<args, mc, files, scheduler, lr, val_f1, history,
                   test_predictions, retval>>
    /\ UNCHANGED notSupervise

\* self._saved.sort(key=priority) after the append: a stable sort.
RECURSIVE SortedInsert(_, _)
SortedInsert(saved, item) ==
    IF saved = <<>> THEN <<item>>
    ELSE IF item.priority < saved[1].priority THEN <<item>> \o saved
    ELSE <<saved[1]>> \o SortedInsert(Tail(saved), item)

\* What torch.save writes for each object handed to the handler.
ComponentState(name) ==
    CASE name = "model" -> [epoch |-> trainer.epoch]
      [] name = "optimizer" -> [lr |-> lr]
      [] name = "scheduler" -> scheduler

McShouldSaveOnTie(saved, priority) ==
    Len(saved) < N_SAVED \/ saved[1].priority <= priority
McShouldSave(saved, priority) ==
    Len(saved) < N_SAVED \/ saved[1].priority < priority

ModelCheckpointCall ==
    /\ pc = "checkpoint"
    /\ LET iteration == mc.iteration + 1
           priority == val_f1[1]
           save == McShouldSave(mc.saved, priority)
           written == IF save
                        THEN {CheckpointFile(c, iteration, priority, ComponentState(c)) :
                                 c \in COMPONENTS}
                        ELSE {}
           saved1 == IF save
                       THEN SortedInsert(mc.saved,
                               [priority |-> priority, iteration |-> iteration])
                       ELSE mc.saved
           evict == Len(saved1) > N_SAVED
           evicted == IF evict
                        THEN {f \in files : f.iteration = saved1[1].iteration}
                        ELSE {}
       IN /\ mc' = [iteration |-> iteration,
                    saved |-> IF evict THEN Tail(saved1) ELSE saved1]
          /\ files' = (files \cup written) \ evicted
    /\ pc' = "log_validation"
    /\ UNCHANGED <<args, trainer, es, scheduler, lr, val_f1, history,
                   test_predictions, retval>>
    /\ UNCHANGED notSupervise

\* log_results(val_evaluator, ...), after engine.run returned: the record.
LogValidation ==
    /\ pc = "log_validation"
    /\ history' = Append(history,
                     HistoryEntry(Record(Metrics(val_f1[1], FALSE), "validation",
                                         trainer.epoch, lr)))
    /\ pc' = "scheduler_step"
    /\ UNCHANGED <<args, trainer, es, mc, files, scheduler, lr, val_f1,
                   test_predictions, retval>>
    /\ UNCHANGED notSupervise

\* ReduceLROnPlateau(mode='min', threshold_mode='rel'): a is better than best
\* when a < best * (1 - threshold); best starts at +inf.
IsBetter(a, best) ==
    best = None \/ a * 100 < best[1] * (100 - THRESHOLD_PCT)

\* _reduce_lr: new_lr = max(old_lr * factor, min_lr = 0), applied only when
\* old_lr - new_lr > eps (lr is in units of eps).
ReduceLr(old_lr) ==
    IF LR_FACTOR_DIV * old_lr - old_lr > LR_FACTOR_DIV
      THEN old_lr \div LR_FACTOR_DIV
      ELSE old_lr

\* scheduler.step(metric) with metric = the validation F1 (cooldown = 0).
SchedulerStep ==
    /\ pc = "scheduler_step"
    /\ LET current == val_f1[1]
           better == IsBetter(current, scheduler.best)
           bad == IF better THEN 0 ELSE scheduler.num_bad_epochs + 1
           reduce == bad > args.lr_patience
       IN /\ scheduler' = [best |-> IF better THEN Some(current) ELSE scheduler.best,
                           num_bad_epochs |-> IF reduce THEN 0 ELSE bad,
                           last_epoch |-> scheduler.last_epoch + 1]
          /\ lr' = IF reduce THEN ReduceLr(lr) ELSE lr
    /\ pc' = "loop"
    /\ UNCHANGED <<args, trainer, es, mc, files, val_f1, history,
                   test_predictions, retval>>
    /\ UNCHANGED notSupervise

\* log_test_results on COMPLETED: the test evaluator also aggregates predictions.
LogTest ==
    /\ pc = "completed"
    /\ \E f \in EvaluatorF1("test") :
         LET metrics == Metrics(f, TRUE)
             record == Record(metrics, "test", trainer.epoch, lr)
         IN /\ history' = Append(history, HistoryEntry(record))
            /\ test_predictions' = Append(test_predictions, metrics["predictions"])
    /\ pc' = "return"
    /\ UNCHANGED <<args, trainer, es, mc, files, scheduler, lr, val_f1, retval>>
    /\ UNCHANGED notSupervise

\* assert len(test_predictions) == 1; return history, test_predictions[0]
Return ==
    /\ pc = "return"
    /\ IF Len(test_predictions) = 1
         THEN /\ retval' = Some(<<history, test_predictions[1]>>)
              /\ pc' = "done"
         ELSE /\ retval' = Some("AssertionError")
              /\ pc' = "raised"
    /\ UNCHANGED <<args, trainer, es, mc, files, scheduler, lr, val_f1, history,
                   test_predictions>>
    /\ UNCHANGED notSupervise

SuperviseNext ==
    \/ Construct
    \/ TrainEpoch
    \/ LogTraining
    \/ ValRun
    \/ EarlyStoppingCall
    \/ ModelCheckpointCall
    \/ LogValidation
    \/ SchedulerStep
    \/ LogTest
    \/ Return

\* supervise not running: its handlers and lists as constructed.
SuperviseIdle ==
    /\ args = [max_epochs |-> 0, es_patience |-> 1, lr_patience |-> 0,
               model_dir |-> None, lr |-> InitialLr]
    /\ pc = "idle"
    /\ trainer = [epoch |-> 0, should_terminate |-> FALSE]
    /\ es = [best_score |-> None, counter |-> 0]
    /\ mc = [iteration |-> 0, saved |-> <<>>]
    /\ scheduler = [best |-> None, num_bad_epochs |-> 0, last_epoch |-> 0]
    /\ lr = InitialLr
    /\ val_f1 = None
    /\ history = <<>>
    /\ test_predictions = <<>>
    /\ retval = None

LoadIdle ==
    /\ output_dir = <<>>
    /\ lpc = "idle"
    /\ checkpoint = <<>>
    /\ load_error = None

\* The module as imported, before any get_modeling_config call.
MarkerListsAtImport ==
    [m \in {"doub_01", "sngl_01", "mult_01"} |->
        CASE m = "doub_01" -> << <<"<<", ">>">>, <<"[[", "]]">>, <<"##", "##">>, <<"@@", "@@">> >>
          [] m = "sngl_01" -> << <<"<", ">">>, <<"[", "]">>, <<"#", "#">>, <<"@", "@">> >>
          [] m = "mult_01" -> << <<"< #", "# >">>, <<"< @", "@ >">>, <<"| #", "# |">>, <<"| @", "@">> >>]

ConfigIdle ==
    /\ MARKER_LISTS = MarkerListsAtImport
    /\ config = None
    /\ config_calls = 0

ClearIdle ==
    /\ fs = {<<>>}
    /\ cwd = <<>>
    /\ train_output_dir = None
    /\ tpc = "idle"
    /\ removed = {}
    /\ train_error = None

TrainIdle ==
    /\ splits = <<>>
    /\ df = <<>>
    /\ wrd_embedding_type = <<>>
    /\ datasets = <<>>
    /\ vocab = None
    /\ model_args = None
    /\ trpc = "idle"
    /\ tr_error = None
    /\ prev_run = None

InitSupervise == SuperviseInit /\ LoadIdle /\ ConfigIdle /\ ClearIdle /\ TrainIdle

SpecSupervise == InitSupervise /\ [][SuperviseNext]_vars

\* The loop is sequential code: every step that can run does run.
FairSupervise == SpecSupervise /\ WF_vars(SuperviseNext)

---------------------------------------------------------------------------
(* Properties of supervise *)

Finished == pc \in {"done", "raised"}
AfterEpoch == pc \in {"loop", "completed", "return", "done"} /\ trainer.epoch >= 1

\* The validation F1 of epoch e, read back from the history.
ValF1At(e) == history[2 * e]["f1"]
BestBefore(e) == Max({ValF1At(k) : k \in 1..(e - 1)})
Improved(e) == e = 1 \/ ValF1At(e) > BestBefore(e)
LastImproved(E) == Max({e \in 1..E : Improved(e)})
FirstBest(E) ==
    CHOOSE e \in 1..E : /\ \A k \in 1..E : ValF1At(k) <= ValF1At(e)
                        /\ \A k \in 1..(e - 1) : ValF1At(k) < ValF1At(e)

\* es_patience consecutive epochs, the last of them e, without a validation F1
\* strictly higher than the best seen before.
Stalled(e) ==
    /\ e - args.es_patience >= 1
    /\ \A k \in (e - args.es_patience + 1)..e : ~Improved(k)

C1_StopRule ==
    /\ trainer.epoch <= args.max_epochs
    /\ pc \in {"completed", "return", "done"} =>
         LET E == trainer.epoch IN
           /\ \A e \in 1..(E - 1) : ~Stalled(e)
           /\ E < args.max_epochs => Stalled(E)
           /\ E >= 1 => E <= LastImproved(E) + args.es_patience + 1

\* C1: with es_patience >= 1, supervise runs epoch after epoch until the first
\* epoch at which es_patience consecutive epochs brought no validation F1
\* strictly above the best so far, or until max_epochs, whichever comes first;
\* it never runs more than max_epochs epochs, stops no later than
\* es_patience + 1 epochs after the last improving epoch, and always terminates.
C1_EarlyStopping == [](C1_StopRule) /\ <>Finished

\* An early stop (before max_epochs) one epoch after an improvement at epoch 2.
C1_Witness ==
    /\ pc = "done"
    /\ args.es_patience = 1
    /\ trainer.epoch = 3
    /\ trainer.epoch < args.max_epochs
    /\ LastImproved(3) = 2

RoseByThreshold(e) ==
    e = 1 \/ ValF1At(e) * 100 > BestBefore(e) * (100 + THRESHOLD_PCT)

\* C2: the learning rate is reduced (x 0.25) only after more than lr_patience
\* consecutive epochs whose validation F1 did not rise above the best so far by
\* more than 1%, and never at an epoch whose validation F1 did rise.
C2_LrReducedOnlyOnPlateau ==
    (pc = "loop" /\ trainer.epoch >= 1 /\ lr # history[2 * trainer.epoch]["lr"]) =>
        /\ trainer.epoch - args.lr_patience >= 1
        /\ \A k \in (trainer.epoch - args.lr_patience)..trainer.epoch : ~RoseByThreshold(k)

\* C3: with model_dir set, after every completed epoch the checkpoint directory
\* holds exactly one file per component (model, optimizer, scheduler), all saved
\* at the first epoch that reached the highest validation F1 so far (a tie does
\* not replace the checkpoint); with model_dir = None nothing is ever written.
C3_SingleBestCheckpoint ==
    /\ args.model_dir = None => files = {} /\ mc.iteration = 0
    /\ (args.model_dir # None /\ AfterEpoch) =>
         /\ \A c \in COMPONENTS : Cardinality({f \in files : f.name = c}) = 1
         /\ \A f \in files :
              /\ f.name \in COMPONENTS
              /\ f.iteration = FirstBest(trainer.epoch)
              /\ f.score = ValF1At(FirstBest(trainer.epoch))
              /\ f.name = "model" => f.state.epoch = FirstBest(trainer.epoch)

\* The checkpoint of epoch 1 was replaced at epoch 2 and kept through a tie.
C3_Witness ==
    /\ args.model_dir # None
    /\ pc = "done"
    /\ trainer.epoch >= 3
    /\ ValF1At(1) < ValF1At(2)
    /\ ValF1At(3) = ValF1At(2)
    /\ \A f \in files : f.iteration = 2

IsPrefix(s, t) == Len(s) <= Len(t) /\ SubSeq(t, 1, Len(s)) = s

C4_HistoryShape ==
    /\ \A i \in 1..Len(history) : "predictions" \notin DOMAIN history[i]
    /\ pc = "done" =>
         LET E == trainer.epoch IN
           /\ Len(history) = 2 * E + 1
           /\ \A e \in 1..E :
                /\ history[2 * e - 1]["type"] = "Training"
                /\ history[2 * e - 1]["epoch"] = e
                /\ history[2 * e]["type"] = "Validation"
                /\ history[2 * e]["epoch"] = e
           /\ history[2 * E + 1]["type"] = "Test"
           /\ Len(test_predictions) = 1
           /\ retval = Some(<<history, test_predictions[1]>>)

\* C4: the history is append-only and, for a run of E epochs, ends as 2E + 1
\* records: Training e, Validation e for e = 1..E, then one Test record; no
\* record has the 'predictions' key and exactly one test prediction set is
\* returned.
C4_History == [](C4_HistoryShape) /\ [][IsPrefix(history, history')]_vars

\* A run stopped early after three epochs: seven records.
C4_Witness ==
    /\ pc = "done"
    /\ trainer.epoch = 3
    /\ trainer.epoch < args.max_epochs
    /\ Len(history) = 7

\* C12: in each epoch the training and validation metrics are recorded and the
\* learning-rate scheduler has taken that epoch's step before the early-stopping
\* check, and the checkpoint is written last: the scheduler state saved in a
\* checkpoint has taken as many steps as the model has trained epochs.
C12_EpochStepOrder ==
    /\ pc \in {"early_stopping", "checkpoint"} =>
          /\ Len(history) = 2 * trainer.epoch
          /\ scheduler.last_epoch = trainer.epoch
    /\ \A f \in files : \A g \in files :
          (f.name = "scheduler" /\ g.name = "model" /\ f.iteration = g.iteration
             /\ f.state # None /\ g.state # None)
            => f.state.last_epoch = g.state.epoch

---------------------------------------------------------------------------
(* load_checkpoint and _predict *)

\* A string is a sequence of chunks: "_" is the underscore, every other chunk
\* is text without an underscore.
OutputDirs == { <<"/out">>, <<"/my", "_", "run">>, <<"/exp", "_", "1", "_", "b">> }

\* ModelCheckpoint's file name: {prefix}_{name}_{iteration}_{score_name}={score}.pth
FileName(f) ==
    <<"model", "_", f.name, "_", ToString(f.iteration), "_", "f1=", ToString(f.score), ".pth">>

\* glob.glob(str(Path(checkpoint_dir) / '*.pth')): the full path of each file.
GlobPath(checkpoint_dir, f) == checkpoint_dir \o <<"/">> \o FileName(f)

\* str.split('_')
RECURSIVE Split(_)
Split(str) ==
    IF str = <<>> THEN << <<>> >>
    ELSE LET rest == Split(Tail(str)) IN
         IF Head(str) = "_"
           THEN << <<>> >> \o rest
           ELSE << <<Head(str)>> \o rest[1] >> \o Tail(rest)

\* f.split('_')[1]
ComponentKey(checkpoint_dir, f) == Split(GlobPath(checkpoint_dir, f))[2]

\* The checkpoint directory of an earlier run: any files ModelCheckpoint names.
Listings ==
    SUBSET {CheckpointFile(c, i, 100, None) : c \in COMPONENTS, i \in 1..MaxIteration}

LoadInit ==
    /\ output_dir \in OutputDirs
    /\ files \in Listings
    /\ lpc = "load_checkpoint"
    /\ checkpoint = <<>>
    /\ load_error = None

\* load_checkpoint(output_dir / 'checkpoints')
LoadCheckpoint ==
    /\ lpc = "load_checkpoint"
    /\ LET checkpoint_dir == output_dir \o <<"/checkpoints">>
           keys == {ComponentKey(checkpoint_dir, f) : f \in files}
           comps == [k \in keys |-> {f \in files : ComponentKey(checkpoint_dir, f) = k}]
       IN IF \E k \in keys : Cardinality(comps[k]) > 1
            THEN /\ load_error' = Some("ValueError")
                 /\ lpc' = "raised"
                 /\ UNCHANGED checkpoint
            ELSE /\ checkpoint' = [k \in keys |-> CHOOSE f \in comps[k] : TRUE]
                 /\ lpc' = "load_state_dict"
                 /\ UNCHANGED load_error
    /\ UNCHANGED <<output_dir, files>>
    /\ UNCHANGED notLoad

\* model.load_state_dict(checkpoint['model'])
RestoreModel ==
    /\ lpc = "load_state_dict"
    /\ IF <<"model">> \in DOMAIN checkpoint
         THEN /\ lpc' = "restored"
              /\ UNCHANGED load_error
         ELSE /\ lpc' = "raised"
              /\ load_error' = Some("KeyError")
    /\ UNCHANGED <<output_dir, files, checkpoint>>
    /\ UNCHANGED notLoad

LoadNext ==
    \/ LoadCheckpoint
    \/ RestoreModel

InitLoad == LoadInit /\ SuperviseIdle /\ ConfigIdle /\ ClearIdle /\ TrainIdle

SpecLoad == InitLoad /\ [][LoadNext]_vars

FilesOf(c) == {f \in files : f.name = c}

\* C5: load_checkpoint raises ValueError exactly when some component has more
\* than one file, and otherwise returns one state under each component name
\* present in the directory, whatever the checkpoint directory's path; with one
\* model file, checkpoint['model'] is there for _predict.
C5_LoadByComponent ==
    lpc # "load_checkpoint" =>
      LET ambiguous == \E c \in COMPONENTS : Cardinality(FilesOf(c)) > 1 IN
        /\ (load_error = Some("ValueError")) <=> ambiguous
        /\ ~ambiguous =>
             /\ DOMAIN checkpoint = {<<c>> : c \in {f.name : f \in files}}
             /\ \A f \in files : checkpoint[<<f.name>>] = f
             /\ load_error # Some("KeyError") \/ FilesOf("model") = {}

---------------------------------------------------------------------------
(* get_modeling_config *)

ENTITY_TYPES == {"cytokine", "immune_cell_type", "transcription_factor"}

DEFAULT_SWAPS ==
    [t \in ENTITY_TYPES |->
        CASE t = "immune_cell_type" -> "CELL"
          [] t = "cytokine" -> "CYTOKINE"
          [] t = "transcription_factor" -> "TF"]

\* candidate_class.entity_types: an ordered pair of two entity types
EntityTypePairs == {p \in ENTITY_TYPES \X ENTITY_TYPES : p[1] # p[2]}

\* list(x or [])
ListOrEmpty(x) == IF x = None THEN <<>> ELSE x

\* markers = MARKER_LISTS[...] is the list object itself, so the two assignments
\* of None write into MARKER_LISTS (Python index n is position n + 1).
MarkersAfterCall(markers, use_secondary) ==
    IF use_secondary THEN markers
    ELSE [markers EXCEPT ![3] = None, ![4] = None]

get_modeling_config(marker_list, use_secondary, entity_types, use_swaps) ==
    LET markers == MarkersAfterCall(MARKER_LISTS[marker_list], use_secondary)
        typ0 == entity_types[1]
        typ1 == entity_types[2]
    IN /\ MARKER_LISTS' = [MARKER_LISTS EXCEPT ![marker_list] = markers]
       /\ config' = Some(
            [marker_list |-> marker_list,
             use_secondary |-> use_secondary,
             entity_types |-> entity_types,
             use_swaps |-> use_swaps,
             markers |->
               [primary |-> [t \in {typ0, typ1} |->
                                IF t = typ0 THEN markers[1] ELSE markers[2]],
                secondary |-> [t \in {typ0, typ1} |->
                                IF t = typ0 THEN ListOrEmpty(markers[3])
                                            ELSE ListOrEmpty(markers[4])]],
             swaps |-> IF use_swaps THEN Some(DEFAULT_SWAPS) ELSE None])

\* One call, with any arguments, in a process that made fewer than MaxCalls.
GetModelingConfig ==
    /\ config_calls < MaxCalls
    /\ \E marker_list \in DOMAIN MarkerListsAtImport, use_secondary \in BOOLEAN,
          entity_types \in EntityTypePairs, use_swaps \in BOOLEAN :
         get_modeling_config(marker_list, use_secondary, entity_types, use_swaps)
    /\ config_calls' = config_calls + 1
    /\ UNCHANGED notConfig

\* An unrecognised marker list name: MARKER_LISTS[...] raises KeyError.
GetModelingConfigUnknown ==
    /\ config_calls < MaxCalls
    /\ config' = Some("KeyError")
    /\ config_calls' = config_calls + 1
    /\ UNCHANGED MARKER_LISTS
    /\ UNCHANGED notConfig

ConfigNext ==
    \/ GetModelingConfig
    \/ GetModelingConfigUnknown

InitConfig ==
    ConfigIdle /\ SuperviseIdle /\ files = {} /\ LoadIdle /\ ClearIdle /\ TrainIdle

SpecConfig == InitConfig /\ [][ConfigNext]_vars

\* C8: each call's markers depend only on its own arguments: primary maps both
\* entity types to their [open, close] pair, secondary maps them to a pair when
\* use_secondary is true and to an empty list when it is false, whatever calls
\* came before; MARKER_LISTS is never changed.
C8_ConfigDependsOnArgsOnly ==
    /\ MARKER_LISTS = MarkerListsAtImport
    /\ (config # None /\ config # Some("KeyError")) =>
         LET c == config[1]
             lst == MarkerListsAtImport[c.marker_list]
             typ0 == c.entity_types[1]
             typ1 == c.entity_types[2]
         IN /\ c.markers.primary[typ0] = lst[1]
            /\ c.markers.primary[typ1] = lst[2]
            /\ c.markers.secondary[typ0] = (IF c.use_secondary THEN lst[3] ELSE <<>>)
            /\ c.markers.secondary[typ1] = (IF c.use_secondary THEN lst[4] ELSE <<>>)

---------------------------------------------------------------------------
(* The train command: clearing the output directory *)

DirNames == {"tmp", "exp"}

\* Resolved absolute paths: the segments below the root, <<>> is "/".
Paths == UNION {[1..n -> DirNames] : n \in 0..MaxDepth}

Prefixes(path) == {SubSeq(path, 1, n) : n \in 0..Len(path)}

IsUnder(path, dir) == Len(dir) <= Len(path) /\ SubSeq(path, 1, Len(dir)) = dir

\* --output-dir as given: absolute, or relative to the working directory.
OutputDirArgs ==
    {None} \cup {Some([absolute |-> a, segs |-> p]) : a \in BOOLEAN, p \in Paths}

\* pathlib.Path.resolve()
Resolve(path) == IF path.absolute THEN path.segs ELSE cwd \o path.segs

\* pathlib's parts of a resolved path: the root "/" and then each segment.
Parts(resolved) == <<"/">> \o resolved

TooCloseToRootOffByOne(resolved) == Len(Parts(resolved)) <= 1
TooCloseToRoot(resolved) == Len(Parts(resolved)) <= 2

\* The file system holds one directory tree, the path down to some directory;
\* the process runs in one of its directories.
ClearInit ==
    /\ \E leaf \in Paths : fs = Prefixes(leaf)
    /\ cwd \in fs
    /\ train_output_dir \in OutputDirArgs
    /\ tpc = "clear"
    /\ removed = {}
    /\ train_error = None

\* cli.py 358-371: if output_dir is not None: ... rmtree ... mkdir(parents=True)
ClearOutputDir ==
    /\ tpc = "clear"
    /\ IF train_output_dir = None
         THEN /\ tpc' = "train"
              /\ UNCHANGED <<fs, removed, train_error>>
         ELSE LET resolved == Resolve(train_output_dir[1])
                  exists == resolved \in fs
              IN IF exists /\ TooCloseToRoot(resolved)
                   THEN /\ train_error' = Some("AssertionError")
                        /\ tpc' = "raised"
                        /\ UNCHANGED <<fs, removed>>
                   ELSE LET gone == IF exists THEN {q \in fs : IsUnder(q, resolved)} ELSE {}
                        IN /\ removed' = removed \cup gone
                           /\ fs' = (fs \ gone) \cup Prefixes(resolved)
                           /\ tpc' = "train"
                           /\ UNCHANGED train_error
    /\ UNCHANGED <<cwd, train_output_dir>>
    /\ UNCHANGED notClear

\* history, fields = _train(cands, splits, config)
StartTrain ==
    /\ tpc = "train"
    /\ tpc' = "training"
    /\ UNCHANGED <<fs, cwd, train_output_dir, removed, train_error>>
    /\ UNCHANGED notClear

ClearNext ==
    \/ ClearOutputDir
    \/ StartTrain

InitClear ==
    ClearInit /\ SuperviseIdle /\ files = {} /\ LoadIdle /\ ConfigIdle /\ TrainIdle

SpecClear == InitClear /\ [][ClearNext]_vars

\* The number of path segments below the filesystem root.
SegmentsBelowRoot(resolved) == Len(resolved)

Shallow(n) ==
    /\ train_output_dir # None
    /\ Resolve(train_output_dir[1]) \in fs
    /\ SegmentsBelowRoot(Resolve(train_output_dir[1])) <= n

\* C7 as stated: an existing output directory is deleted only if its resolved
\* path is more than two segments below the root; a shallower one makes the
\* command raise and is left unchanged, and training does not start.
C7_DeletedOnlyBelowTwoSegments ==
    [][(tpc = "clear" /\ Shallow(2)) =>
          (tpc' = "raised" /\ fs' = fs /\ removed' = removed)]_vars

\* C7 as amended: an existing output directory is deleted only if its resolved
\* path has more than two parts counting the root itself, that is, if it is at
\* least two segments below the root; the root and its direct children make the
\* command raise, nothing is deleted and training does not start.
C7_DeletedOnlyBelowOneSegment ==
    /\ [][(tpc = "clear" /\ Shallow(1)) =>
            (tpc' = "raised" /\ fs' = fs /\ removed' = removed)]_vars
    /\ [][tpc = "raised" => (tpc' = "raised" /\ fs' = fs /\ removed' = removed)]_vars
    /\ [](\A q \in removed : IsUnder(q, Resolve(train_output_dir[1]))
                              /\ SegmentsBelowRoot(Resolve(train_output_dir[1])) >= 2)
    /\ [](tpc = "raised" => train_error = Some("AssertionError") /\ removed = {})

\* The command refused /tmp given as a relative path from the root.
C7_Witness ==
    /\ tpc = "raised"
    /\ train_output_dir = Some([absolute |-> FALSE, segs |-> <<"tmp">>])
    /\ cwd = <<>>
    /\ <<"tmp", "exp">> \in fs

---------------------------------------------------------------------------
(* _datasets *)

Ids == 1..MaxId

\* Token sequences a candidate's features can carry; Alphabet gives the
\* alphabetical order of the tokens.
Alphabet == <<"a", "b", "c">>
Texts == { <<"a">>, <<"c", "b", "c">> }

\* Labels in units of 1/2: 0, 1.0 and 1.5.
Labels == {0, 2, 3}

\* df['label'].between(0, 1)
Between01(label) == 0 <= label /\ label <= 2

Range(seq) == {seq[i] : i \in 1..Len(seq)}

SeqsUpTo(S, n) == UNION {[1..k -> S] : k \in 0..n}

RECURSIVE Flatten(_)
Flatten(seqs) == IF seqs = <<>> THEN <<>> ELSE Head(seqs) \o Flatten(Tail(seqs))

\* The order in which a splits dict is iterated.
SplitOrder == <<"train", "val", "test", "predict">>

\* dfi.loc[cid]: the feature row with that id.
Loc(frame, cid) == frame[CHOOSE i \in 1..Len(frame) : frame[i].id = cid]

\* ex[:10] of the unique out-of-range labels, in order of appearance.
RECURSIVE Unique(_)
Unique(seq) ==
    IF seq = <<>> THEN <<>>
    ELSE LET init == Unique(SubSeq(seq, 1, Len(seq) - 1))
             last == seq[Len(seq)]
         IN IF last \in Range(init) THEN init ELSE Append(init, last)

AllExamples(seq) == seq
FirstTen(seq) == SubSeq(seq, 1, IF Len(seq) < 10 THEN Len(seq) ELSE 10)

\* The ids of a split for which rows are collected.
SplitCidsDeduplicated(cids) == Unique(cids)
SplitCids(cids) == cids

\* _datasets(cands, splits, config, fields): the datasets, or the exception.
DatasetsOf(frame, split_map) ==
    LET labels == [i \in 1..Len(frame) |-> frame[i].label]
        outside == SelectSeq(labels, LAMBDA l : ~Between01(l))
        names == SelectSeq(SplitOrder, LAMBDA k : k \in DOMAIN split_map)
        wanted == Flatten([n \in 1..Len(names) |->
                     LET cids == SplitCids(split_map[names[n]])
                     IN [i \in 1..Len(cids) |-> [split |-> names[n], cid |-> cids[i]]]])
        known == {frame[i].id : i \in 1..Len(frame)}
    IN IF outside # <<>>
         THEN [error |-> Some([type |-> "AssertionError",
                               examples |-> FirstTen(Unique(outside))]),
               datasets |-> <<>>]
       ELSE IF \E i \in 1..Len(wanted) : wanted[i].cid \notin known
         THEN [error |-> Some([type |-> "KeyError"]), datasets |-> <<>>]
       ELSE IF wanted = <<>>
         THEN [error |-> Some([type |-> "KeyError"]), datasets |-> <<>>]
       ELSE [error |-> None,
             datasets |->
               [k \in {wanted[i].split : i \in 1..Len(wanted)} |->
                  LET mine == SelectSeq(wanted, LAMBDA w : w.split = k)
                  IN [i \in 1..Len(mine) |-> Loc(frame, mine[i].cid)]]]

\* Feature tables: one row per resolved candidate, ids distinct, in id order.
Frames(texts, labels) ==
    {frame \in SeqsUpTo([id : Ids, text : texts, label : labels], MaxId) :
        \A i \in 1..Len(frame) : \A j \in 1..Len(frame) : i < j => frame[i].id < frame[j].id}

\* Larger feature tables, of MaxRows - 2 to MaxRows rows: the first row has
\* label 1.0 and row i the (i % d)-th of the out-of-range values -0.5, 1.5,
\* -1.5, 2.5, ..., so that a table has up to MaxRows - 1 distinct ones.
OutsideLabel(v) == IF v % 2 = 0 THEN 0 - 1 - v ELSE 2 + v

WideFrames ==
    { [i \in 1..n |-> [id |-> i, text |-> <<"a">>,
                       label |-> IF i = 1 THEN 2 ELSE OutsideLabel(i % d)]] :
        n \in (MaxRows - 2)..MaxRows, d \in 1..MaxRows }

DatasetSplits ==
    [{"train", "val"} -> SeqsUpTo(Ids, MaxSplitLen)]
      \cup [{"predict"} -> SeqsUpTo(Ids, MaxSplitLen)]

DatasetsInit ==
    /\ splits \in DatasetSplits
    /\ df \in Frames({<<"a">>}, Labels) \cup WideFrames
    /\ wrd_embedding_type = <<>>
    /\ datasets = <<>>
    /\ vocab = None
    /\ model_args = None
    /\ trpc = "datasets"
    /\ tr_error = None
    /\ prev_run = None

\* datasets = _datasets(cands, splits, config, fields)
CallDatasets ==
    /\ trpc = "datasets"
    /\ LET res == DatasetsOf(df, splits) IN
         /\ datasets' = res.datasets
         /\ tr_error' = res.error
         /\ trpc' = IF res.error = None THEN "vocab" ELSE "raised"
    /\ UNCHANGED <<splits, df, wrd_embedding_type, vocab, model_args, prev_run>>
    /\ UNCHANGED notTrain

\* _predict (cli.py 162-165): the 'predict' dataset must be among them.
PredictDataset ==
    /\ trpc = "vocab"
    /\ wrd_embedding_type = <<>>
    /\ IF "predict" \in DOMAIN datasets
         THEN /\ trpc' = "predict"
              /\ UNCHANGED tr_error
         ELSE /\ trpc' = "raised"
              /\ tr_error' = Some([type |-> "AssertionError", examples |-> <<>>])
    /\ UNCHANGED <<splits, df, wrd_embedding_type, datasets, vocab, model_args,
                   prev_run>>
    /\ UNCHANGED notTrain

DatasetsNext ==
    \/ CallDatasets
    \/ PredictDataset

InitDatasets ==
    DatasetsInit /\ SuperviseIdle /\ files = {} /\ LoadIdle /\ ConfigIdle /\ ClearIdle

SpecDatasets == InitDatasets /\ [][DatasetsNext]_vars

RECURSIVE Sum(_)
Sum(seq) == IF seq = <<>> THEN 0 ELSE Head(seq) + Sum(Tail(seq))

SplitNames == SelectSeq(SplitOrder, LAMBDA k : k \in DOMAIN splits)

OffendingLabels == {df[i].label : i \in {j \in 1..Len(df) : df[j].label < 0 \/ df[j].label > 2}}

\* C11: once _datasets has been called on a feature table with a label outside
\* [0, 1], it has raised AssertionError naming at least one and at most 10
\* distinct offending values and no split has a dataset; and every row of
\* every dataset it returns has a label in [0, 1].
C11_LabelOutOfRangeIsFatal ==
    /\ (trpc # "datasets" /\ OffendingLabels # {}) =>
          /\ trpc = "raised"
          /\ tr_error # None
          /\ tr_error[1].type = "AssertionError"
          /\ LET ex == tr_error[1].examples
             IN /\ 1 <= Len(ex) /\ Len(ex) <= 10
                /\ \A i \in 1..Len(ex) : ex[i] \in OffendingLabels
                /\ \A i \in 1..Len(ex) : \A j \in 1..Len(ex) : i # j => ex[i] # ex[j]
          /\ datasets = <<>>
    /\ (trpc # "datasets" /\ tr_error = None) =>
          \A k \in DOMAIN datasets : \A i \in 1..Len(datasets[k]) :
              0 <= datasets[k][i].label /\ datasets[k][i].label <= 2

\* A table with eleven distinct out-of-range labels, next to a row in range,
\* was refused and ten of the values were named.
C11_Witness ==
    /\ trpc = "raised"
    /\ Cardinality(OffendingLabels) = 11
    /\ \E i \in 1..Len(df) : df[i].label = 2
    /\ Len(tr_error[1].examples) = 10
    /\ datasets = <<>>

---------------------------------------------------------------------------
(* _train *)

\* --wrd-embedding-type values, as chunks: the text up to "w2v" and the rest.
EmbeddingTypes ==
    { <<"w2v", "_frozen">>, <<"w2v", "_trained">>, <<"denovo">>,
      <<"w2v", "_other">>, <<"w2v">>, <<"glove">> }

\* str.startswith('w2v')
StartsWithW2v(type) == type # <<>> /\ Head(type) = "w2v"

\* torchtext Vocab: the specials, then the tokens by descending count, tokens
\* of equal count in alphabetical order.
Count(token, rows) ==
    Sum([i \in 1..Len(rows) |->
           Len(SelectSeq(rows[i].text, LAMBDA t : t = token))])

RECURSIVE ByCount(_, _, _)
ByCount(rows, count, acc) ==
    IF count = 0 THEN acc
    ELSE ByCount(rows, count - 1,
                 acc \o SelectSeq(Alphabet, LAMBDA t : Count(t, rows) = count))

MaxCount(rows) == Sum([i \in 1..Len(rows) |-> Len(rows[i].text)])

BuildVocab(rows) == ByCount(rows, MaxCount(rows), <<"<unk>", "<pad>">>)

\* fields['text'].build_vocab(datasets['train'])
VocabSourceAllSplits(ds) ==
    Flatten([n \in 1..Len(SplitOrder) |->
               IF SplitOrder[n] \in DOMAIN ds THEN ds[SplitOrder[n]] ELSE <<>>])
VocabSource(ds) == ds["train"]

\* Train splits files: one or two train ids, one val id and test id 1; one
\* file lacks the test split.
TrainSplits ==
    {sp \in [{"train", "val", "test"} -> SeqsUpTo(Ids, 2)] :
        Len(sp["train"]) >= 1 /\ Len(sp["val"]) = 1 /\ sp["test"] = <<1>>}
      \cup {[k \in {"train", "val"} |-> <<1>>]}

\* The candidates _cands resolved: all of them, labels in range.
TrainFrames == {frame \in Frames(Texts, {0}) : Len(frame) = MaxId}

TrainInputs ==
    /\ splits' \in TrainSplits
    /\ df' \in TrainFrames
    /\ wrd_embedding_type' \in EmbeddingTypes
    /\ datasets' = <<>>
    /\ vocab' = None
    /\ model_args' = None
    /\ trpc' = "keys"
    /\ tr_error' = None

TrainInit ==
    /\ splits \in TrainSplits
    /\ df \in TrainFrames
    /\ wrd_embedding_type \in EmbeddingTypes
    /\ datasets = <<>>
    /\ vocab = None
    /\ model_args = None
    /\ trpc = "keys"
    /\ tr_error = None
    /\ prev_run = None

\* cli.py 204-205
TrainCheckKeys ==
    /\ trpc = "keys"
    /\ IF {"train", "val", "test"} \ DOMAIN splits # {}
         THEN /\ trpc' = "raised"
              /\ tr_error' = Some([type |-> "ValueError"])
         ELSE /\ trpc' = "datasets"
              /\ UNCHANGED tr_error
    /\ UNCHANGED <<splits, df, wrd_embedding_type, datasets, vocab, model_args,
                   prev_run>>
    /\ UNCHANGED notTrain

\* cli.py 217-230
TrainVocab ==
    /\ trpc = "vocab"
    /\ wrd_embedding_type # <<>>
    /\ IF StartsWithW2v(wrd_embedding_type)
         THEN /\ vocab' = Some([kind |-> "W2VVocab", itos |-> <<>>])
              /\ trpc' = "model"
              /\ UNCHANGED tr_error
         ELSE IF wrd_embedding_type = <<"denovo">>
         THEN IF "train" \in DOMAIN datasets
                THEN /\ vocab' = Some([kind |-> "Vocab",
                                       itos |-> BuildVocab(VocabSource(datasets))])
                     /\ trpc' = "model"
                     /\ UNCHANGED tr_error
                ELSE /\ trpc' = "raised"
                     /\ tr_error' = Some([type |-> "KeyError"])
                     /\ UNCHANGED vocab
         ELSE /\ trpc' = "raised"
              /\ tr_error' = Some([type |-> "ValueError"])
              /\ UNCHANGED vocab
    /\ UNCHANGED <<splits, df, wrd_embedding_type, datasets, model_args, prev_run>>
    /\ UNCHANGED notTrain

\* get_model: the word-embedding arguments derived from the embedding type
\* (wrd_embed_dim of model size 'S' unless the vectors come from outside).
get_model(type) ==
    [wrd_embed_dim |-> IF type # <<"denovo">> THEN None ELSE Some(10),
     train_wrd_embed |-> type \in { <<"w2v", "_trained">> }]

\* cli.py 233-245: the iterators over datasets['train'|'val'|'test'], the model
TrainBuildModel ==
    /\ trpc = "model"
    /\ IF {"train", "val", "test"} \subseteq DOMAIN datasets
         THEN /\ model_args' = Some(get_model(wrd_embedding_type))
              /\ trpc' = "supervise"
              /\ UNCHANGED tr_error
         ELSE /\ trpc' = "raised"
              /\ tr_error' = Some([type |-> "KeyError"])
              /\ UNCHANGED model_args
    /\ UNCHANGED <<splits, df, wrd_embedding_type, datasets, vocab, prev_run>>
    /\ UNCHANGED notTrain

\* cli.py 249-253: supervise(..., seed=config['seed']); supervise takes no
\* 'seed' argument (training.py 17-19), so the call raises TypeError.
TrainSupervise ==
    /\ trpc = "supervise"
    /\ trpc' = "raised"
    /\ tr_error' = Some([type |-> "TypeError"])
    /\ UNCHANGED <<splits, df, wrd_embedding_type, datasets, vocab, model_args,
                   prev_run>>
    /\ UNCHANGED notTrain

TrainIds(sp) == Range(sp["train"])

\* The run is over and its process exits; what it built its vocabulary from
\* is remembered when it was a denovo run.
FinishRun ==
    /\ trpc = "raised"
    /\ prev_run' =
         IF vocab # None /\ wrd_embedding_type = <<"denovo">>
           THEN Some([train |-> splits["train"],
                      texts |-> [id \in TrainIds(splits) |-> Loc(df, id).text],
                      val |-> splits["val"],
                      vocab |-> vocab[1].itos])
           ELSE prev_run
    /\ splits' = <<>>
    /\ df' = <<>>
    /\ wrd_embedding_type' = <<>>
    /\ datasets' = <<>>
    /\ vocab' = None
    /\ model_args' = None
    /\ tr_error' = None
    /\ trpc' = "finished"
    /\ UNCHANGED notTrain

\* The train command is run again, on any inputs.
NewRun ==
    /\ trpc = "finished"
    /\ TrainInputs
    /\ UNCHANGED prev_run
    /\ UNCHANGED notTrain

TrainNext ==
    \/ TrainCheckKeys
    \/ CallDatasets
    \/ TrainVocab
    \/ TrainBuildModel
    \/ TrainSupervise
    \/ FinishRun
    \/ NewRun

InitTrain ==
    TrainInit /\ SuperviseIdle /\ files = {} /\ LoadIdle /\ ConfigIdle /\ ClearIdle

SpecTrain == InitTrain /\ [][TrainNext]_vars

ValidEmbeddingTypes == { <<"w2v", "_frozen">>, <<"w2v", "_trained">>, <<"denovo">> }

\* C6: an embedding type other than w2v_frozen, w2v_trained and denovo makes
\* _train raise ValueError before a model is built or optimization runs.
C6_OnlyThreeEmbeddingTypes ==
    (wrd_embedding_type # <<>> /\ wrd_embedding_type \notin ValidEmbeddingTypes) =>
        /\ trpc \notin {"model", "supervise"}
        /\ model_args = None
        /\ (trpc = "raised" /\ datasets # <<>>) => tr_error = Some([type |-> "ValueError"])

SameTrainRows ==
    /\ prev_run # None
    /\ "train" \in DOMAIN splits
    /\ prev_run[1].train = splits["train"]
    /\ \A id \in TrainIds(splits) : prev_run[1].texts[id] = Loc(df, id).text

\* C10: in denovo mode the vocabulary is a function of the train split's rows:
\* two runs with the same train split and the same train candidates build the
\* same vocabulary, whatever their val and test splits list and say.
C10_VocabFromTrainOnly ==
    (SameTrainRows /\ vocab # None /\ wrd_embedding_type = <<"denovo">>) =>
        vocab[1].itos = prev_run[1].vocab

\* Two denovo runs on the same train rows whose val splits differ; the second
\* run's val candidate carries tokens that its vocabulary does not.
C10_Witness ==
    /\ SameTrainRows
    /\ vocab # None
    /\ wrd_embedding_type = <<"denovo">>
    /\ prev_run[1].val # splits["val"]
    /\ \E t \in Range(Loc(df, splits["val"][1]).text) : t \notin Range(vocab[1].itos)

===========================================================================
